---- MODULE Spec2Model ----
(***************************************************************************)
(* Real-time voice analysis loop of the BEFAST stroke assessment tool:     *)
(* RealTimeVoiceAnalysisService (src/src/services/realTimeVoiceAnalysis.ts)*)
(* and its caller SpeechAnalysisService.startRealTimeAnalysis              *)
(* (src/unnamed/part_000); the risk advisor AIAdvisorService               *)
(* (src/src/services/aiAdvisor.ts); the store useAppStore (second half of  *)
(* src/src/services/faceAnalysis.ts); the handlers of AnalysisPage         *)
(* (src/src/app/analysis/page.tsx) and the speech analysis they call       *)
(* (src/unnamed/part_000, src/src/services/simpleOfflineSpeechAnalysis.ts);*)
(* the feature extraction and the classifier of the single-shot speech     *)
(* analysis, and calculateFacialAsymmetry (first half of                   *)
(* src/src/services/faceAnalysis.ts), as functions applied to bounded sets *)
(* of inputs; TestPage (src/unnamed/part_003) with the loop behind it.     *)
(*                                                                         *)
(* Numbers.  The continuous result fields are JavaScript numbers, that is *)
(* IEEE-754 binary64 values, and are computed here bit for bit, rounding   *)
(* included.  The measurements of a tick and the thresholds they are       *)
(* compared with are given in thousandths, smoothingFactor in tenths; the  *)
(* number such a decimal denotes is the double nearest to it.              *)
(***************************************************************************)
EXTENDS Integers, Sequences, FiniteSets, TLC

\* ---------------------------------------------------------------- bounds
MaxInits == 2         \* initialize() calls made in one behaviour
MaxStarts == 2        \* timers created (successful startAnalysis calls)
RaceTicks == 2        \* results emitted in one session, Spec
ShortSession == 3     \* results emitted in one session, SpecAwaited
MaxTicks == 11        \* results emitted in one session, SpecSession
MaxInputChanges == 1  \* changes of the microphone signal in a long session
SessionInits == 1     \* initialize() calls, and sessions, in SpecSession
MaxAnswers == 1       \* BEFAST answers given, SpecPage
MaxHandled == 2       \* captures and recordings handled, SpecPage
MaxSamples == 3       \* samples of a recording written out in full
TestAnswers == 3      \* answers given on the assessment page, SpecTest
TestStarts == 2       \* Start Live Analysis clicks, SpecTest
TestTicks == 1        \* results emitted in one session, SpecTest

\* null / undefined of a handle, timer id or callback
Null == 0

\* ------------------------------------------------ IEEE-754 binary64 numbers
\* JavaScript numbers are binary64.  A natural number of any size is a
\* sequence of limbs in base 2^14, least significant first, without leading
\* zero limbs; a non-negative double is [m, e] with value m * 2^e and m of
\* exactly 53 bits (four limbs), or Zero.  Every operation rounds to
\* nearest, ties to even, as the JavaScript operators do.
LimbBits == 14
Base == 2^LimbBits
Precision == 53

Max(a, b) == IF a >= b THEN a ELSE b

Min(a, b) == IF a <= b THEN a ELSE b

Limb(a, i) == IF 1 <= i /\ i <= Len(a) THEN a[i] ELSE 0

RECURSIVE BNorm(_)
BNorm(a) ==
  IF a = <<>> THEN <<>>
  ELSE IF a[Len(a)] = 0 THEN BNorm(SubSeq(a, 1, Len(a) - 1))
  ELSE a

\* the number whose limbs, before carrying, are cols[i..]
RECURSIVE Carry(_, _, _)
Carry(cols, i, carry) ==
  IF i > Len(cols) THEN (IF carry = 0 THEN <<>> ELSE <<carry>>)
  ELSE <<(cols[i] + carry) % Base>> \o
       Carry(cols, i + 1, (cols[i] + carry) \div Base)

BAdd(a, b) ==
  Carry([i \in 1..Max(Len(a), Len(b)) |-> Limb(a, i) + Limb(b, i)], 1, 0)

RECURSIVE Borrow(_, _, _)
Borrow(cols, i, borrow) ==
  IF i > Len(cols) THEN <<>>
  ELSE <<(cols[i] - borrow + Base) % Base>> \o
       Borrow(cols, i + 1, IF cols[i] - borrow < 0 THEN 1 ELSE 0)

\* a - b for a >= b
BSub(a, b) == BNorm(Borrow([i \in 1..Len(a) |-> a[i] - Limb(b, i)], 1, 0))

\* a * b for a and b of at most four limbs
BMul(a, b) ==
  BNorm(Carry([k \in 1..(Len(a) + Len(b)) |->
                 Limb(a, 1) * Limb(b, k) + Limb(a, 2) * Limb(b, k - 1)
                 + Limb(a, 3) * Limb(b, k - 2) + Limb(a, 4) * Limb(b, k - 3)],
              1, 0))

\* quotient and remainder of a by one limb d
RECURSIVE BDivSmall(_, _)
BDivSmall(a, d) ==
  IF a = <<>> THEN [q |-> <<>>, r |-> 0]
  ELSE LET hi == BDivSmall(Tail(a), d)
       IN [q |-> <<(hi.r * Base + a[1]) \div d>> \o hi.q,
           r |-> (hi.r * Base + a[1]) % d]

Zeros(n) == [i \in 1..n |-> 0]

\* a * 2^k
BShl(a, k) ==
  LET p == 2^(k % LimbBits)
      q == Base \div p
  IN Zeros(k \div LimbBits) \o
     BNorm([i \in 1..(Len(a) + 1) |->
              (Limb(a, i) % q) * p + Limb(a, i - 1) \div q])

\* floor(a / 2^k)
BShr(a, k) ==
  LET w == k \div LimbBits
      p == 2^(k % LimbBits)
      q == Base \div p
  IN BNorm([i \in 1..(Len(a) - w) |->
              a[w + i] \div p + (Limb(a, w + i + 1) % p) * q])

RECURSIVE Bits(_)
Bits(n) == IF n = 0 THEN 0 ELSE 1 + Bits(n \div 2)

BitLen(a) ==
  IF a = <<>> THEN 0 ELSE LimbBits * (Len(a) - 1) + Bits(a[Len(a)])

RECURSIVE BCmpFrom(_, _, _)
BCmpFrom(a, b, i) ==
  IF i = 0 THEN 0
  ELSE IF a[i] < b[i] THEN -1
  ELSE IF a[i] > b[i] THEN 1
  ELSE BCmpFrom(a, b, i - 1)

\* -1, 0 or 1 as a < b, a = b or a > b
BCmp(a, b) ==
  IF Len(a) < Len(b) THEN -1
  ELSE IF Len(a) > Len(b) THEN 1
  ELSE BCmpFrom(a, b, Len(a))

Zero == [m |-> <<>>, e |-> 0]

\* no bit of a below bit j is set
LowZero(a, j) ==
  /\ \A i \in 1..(j \div LimbBits) : a[i] = 0
  /\ a[j \div LimbBits + 1] % 2^(j % LimbBits) = 0

Renorm(m, e) ==
  IF BitLen(m) > Precision THEN [m |-> BShr(m, 1), e |-> e + 1]
  ELSE [m |-> m, e |-> e]

\* q2 holds the 53 bits kept and, last, the first bit dropped; exact says
\* that no bit dropped after it is set
RoundHalf(q2, exact, e) ==
  IF q2[1] % 2 = 1 /\ (~exact \/ (q2[1] \div 2) % 2 = 1)
    THEN Renorm(BShr(BAdd(q2, <<1>>), 1), e)
    ELSE [m |-> BShr(q2, 1), e |-> e]

RoundBits(n, e, k) ==
  IF k <= 0 THEN [m |-> BShl(n, -k), e |-> e + k]
  ELSE RoundHalf(BShr(n, k - 1), LowZero(n, k - 1), e + k)

\* the double nearest to n * 2^e, ties to even
Round(n, e) ==
  IF n = <<>> THEN Zero ELSE RoundBits(n, e, BitLen(n) - Precision)

\* x * y
DMul(x, y) ==
  IF x = Zero \/ y = Zero THEN Zero ELSE Round(BMul(x.m, y.m), x.e + y.e)

\* x + y
DAdd(x, y) ==
  IF x = Zero THEN y
  ELSE IF y = Zero THEN x
  ELSE LET e == Min(x.e, y.e)
       IN Round(BAdd(BShl(x.m, x.e - e), BShl(y.m, y.e - e)), e)

\* x < y
DLess(x, y) ==
  IF y = Zero THEN FALSE
  ELSE IF x = Zero THEN TRUE
  ELSE x.e < y.e \/ (x.e = y.e /\ BCmp(x.m, y.m) = -1)

\* x - y for x >= y
DSub(x, y) ==
  IF y = Zero THEN x
  ELSE LET e == Min(x.e, y.e)
       IN Round(BSub(BShl(x.m, x.e - e), BShl(y.m, y.e - e)), e)

DMin(x, y) == IF DLess(y, x) THEN y ELSE x

DMax(x, y) == IF DLess(x, y) THEN y ELSE x

\* the double a decimal literal n/d denotes, for one-limb n and d
DOf(n, d) ==
  IF n = 0 THEN Zero
  ELSE LET qr == BDivSmall(BShl(<<n>>, 75), d)
           sticky == IF qr.r = 0 THEN <<>> ELSE <<1>>
       IN Round(BAdd(BShl(BNorm(qr.q), 1), sticky), -76)

\* the doubles of the literals n/10, n/100 and n/1000
Tenths == [n \in 0..10 |-> DOf(n, 10)]

Hundredths == [n \in 0..100 |-> DOf(n, 100)]

Thousandths == [n \in 0..1000 |-> DOf(n, 1000)]

\* the double of a natural number below 2^15
DInt(n) == Round(BNorm(<<n>>), 0)

\* ------------------------------------------------------- configuration
DefaultConfig ==
  [analysisInterval |-> 200, chunkSize |-> 1024, sensitivity |-> 300,
   smoothingFactor |-> 7]

\* smoothingFactor values a loop may be constructed with (tenths)
SmoothingFactors == {0, 3, 7, 10}

\* ------------------------------------------------- per-tick feature sets
\* the measurements of the analyser's snapshot at a tick: volume,
\* zeroCrossingRate and clarity in thousandths, pitch in Hz (0 or
\* sampleRate / period), spectralCentroid in frequency bins.  Silence, and
\* loud, noisy, unclear speech.
Snapshots ==
  { [volume |-> 0,   pitch |-> 0,   spectralCentroid |-> 0,
     zeroCrossingRate |-> 0,   clarity |-> 0],
    [volume |-> 500, pitch |-> 147, spectralCentroid |-> 400,
     zeroCrossingRate |-> 200, clarity |-> 103] }

\* measurements on both sides of every threshold of the classification,
\* with volumes at and below the default sensitivity and above it
TickSnapshots ==
  [volume : {0, 49, 300, 301, 500}, pitch : {0, 49, 147, 601},
   spectralCentroid : {0, 9, 100, 301}, zeroCrossingRate : {0, 151},
   clarity : {0, 199, 301, 501}]

\* --------------------------------------------------------- classification
\* extractRealTimeFeatures: the speaking decision added to the measurements
extractRealTimeFeatures(snap, cfg) ==
  [volume |-> snap.volume, pitch |-> snap.pitch,
   spectralCentroid |-> snap.spectralCentroid,
   zeroCrossingRate |-> snap.zeroCrossingRate,
   clarity |-> snap.clarity,
   isSpeaking |-> snap.volume > cfg.sensitivity]

\* `if (cond) confidence += hundredths / 100`
Bonus(confidence, cond, hundredths) ==
  IF cond THEN DAdd(confidence, Hundredths[hundredths]) ELSE confidence

Confidence(f) ==
  LET c0 == Tenths[5]
      c1 == Bonus(c0, f.volume > 100, 20)
      c2 == Bonus(c1, f.volume > 200, 15)
      c3 == Bonus(c2, f.volume > 300, 10)
      c4 == Bonus(c3, f.pitch > 80 /\ f.pitch < 400, 15)
      c5 == Bonus(c4, f.clarity > 300, 10)
      c6 == Bonus(c5, f.clarity > 500, 10)
      c7 == Bonus(c6, f.spectralCentroid > 20 /\ f.spectralCentroid < 200,
                  10)
      confidence == IF f.isSpeaking THEN c7 ELSE Tenths[1]
  IN DMin(Hundredths[95], DMax(Tenths[1], confidence))

\* a verdict that applies the rules to a silent tick as well
IsSlurred_AlsoWhenSilent(f) ==
  \/ f.volume < 50
  \/ f.zeroCrossingRate > 150
  \/ f.spectralCentroid < 10
  \/ f.spectralCentroid > 300
  \/ f.pitch < 50
  \/ f.pitch > 600
  \/ f.clarity < 200

IsSlurred(f) ==
  /\ f.isSpeaking
  /\ \/ f.volume < 50
     \/ f.zeroCrossingRate > 150
     \/ f.spectralCentroid < 10
     \/ f.spectralCentroid > 300
     \/ f.pitch < 50
     \/ f.pitch > 600
     \/ f.clarity < 200

\* the phrase is picked at random inside one of the two lists; the model
\* keeps which list it came from
Transcription(f) ==
  IF f.isSpeaking
    THEN (IF IsSlurred(f) THEN "slurred phrase" ELSE "normal phrase")
    ELSE "No speech detected"

analyzeRealTimeSpeech(f) ==
  [confidence |-> Confidence(f),
   isSlurred |-> IsSlurred(f),
   transcription |-> Transcription(f),
   volume |-> Thousandths[f.volume],
   pitch |-> DInt(f.pitch),
   clarity |-> Thousandths[f.clarity],
   isSpeaking |-> f.isSpeaking]

\* the classification of each snapshot under the default sensitivity
Classifications ==
  [snap \in Snapshots |->
     analyzeRealTimeSpeech(extractRealTimeFeatures(snap, DefaultConfig))]

\* `1 - smoothingFactor`
OneMinus == [sf \in 0..10 |-> DSub(DInt(1), Tenths[sf])]

\* `last * smoothingFactor + new * (1 - smoothingFactor)`, with
\* smoothingFactor the literal sf/10
Blend(last, new, sf) ==
  LET smoothingFactor == Tenths[sf]
  IN DAdd(DMul(last, smoothingFactor), DMul(new, OneMinus[sf]))

\* smoothing that lets a slurred verdict linger for one more tick
smoothResults_StickyVerdict(history, newResult, cfg) ==
  IF Len(history) = 0 THEN newResult
  ELSE LET lastResult == history[Len(history)]
           sf == cfg.smoothingFactor
       IN [newResult EXCEPT
             !.confidence = Blend(lastResult.confidence, newResult.confidence, sf),
             !.volume = Blend(lastResult.volume, newResult.volume, sf),
             !.pitch = Blend(lastResult.pitch, newResult.pitch, sf),
             !.clarity = Blend(lastResult.clarity, newResult.clarity, sf),
             !.isSlurred = lastResult.isSlurred \/ newResult.isSlurred]

smoothResults(history, newResult, cfg) ==
  IF Len(history) = 0 THEN newResult
  ELSE LET lastResult == history[Len(history)]
           sf == cfg.smoothingFactor
       IN [newResult EXCEPT
             !.confidence = Blend(lastResult.confidence, newResult.confidence, sf),
             !.volume = Blend(lastResult.volume, newResult.volume, sf),
             !.pitch = Blend(lastResult.pitch, newResult.pitch, sf),
             !.clarity = Blend(lastResult.clarity, newResult.clarity, sf)]

\* push, then shift when more than 10 are held
HistoryLimit == 10

\* eviction of the newest result instead of the oldest
storeResult_DropsNewest(history, r) ==
  LET pushed == Append(history, r)
  IN IF Len(pushed) > HistoryLimit
       THEN SubSeq(pushed, 1, Len(pushed) - 1) ELSE pushed

storeResult(history, r) ==
  LET pushed == Append(history, r)
  IN IF Len(pushed) > HistoryLimit THEN Tail(pushed) ELSE pushed

\* ------------------------------------------------------------ risk advisor
\* AIAdvisorService (src/src/services/aiAdvisor.ts).  A value that may be
\* null is a sequence of at most one element.
None == <<>>

Some(x) == <<x>>

\* the keys of BEFASTAnswers; an answer is true, false or null
Questions == {"balance", "eyes", "face", "arms", "speech"}

AnswerValues == {"true", "false", "null"}

\* face analysis results by their asymmetry, in tenths of a percent, and
\* speech analysis results by their verdict and confidence, in hundredths:
\* the values on both sides of every threshold of the calculation
FaceResults == {[asymmetry |-> a] : a \in {150, 151, 300, 301}}

SpeechResults ==
  {[isSlurred |-> s, confidence |-> c] : s \in BOOLEAN, c \in {69, 70}}

AnalysisInputs ==
  [befastAnswers : [Questions -> AnswerValues],
   faceAnalysis : {None} \cup {Some(f) : f \in FaceResults},
   speechAnalysis : {None} \cup {Some(r) : r \in SpeechResults}]

\* a JavaScript number that is an integer, or NaN
NaN == [nan |-> TRUE, n |-> 0]

Number(n) == [nan |-> FALSE, n |-> n]

MathMax(x, y) == IF x.nan \/ y.nan THEN NaN ELSE Number(Max(x.n, y.n))

MathMin(x, y) == IF x.nan \/ y.nan THEN NaN ELSE Number(Min(x.n, y.n))

\* `positiveBEFAST * 20` and its factor
BefastPart(data) ==
  LET positiveBEFAST ==
        Cardinality({q \in Questions : data.befastAnswers[q] = "true"})
  IN IF positiveBEFAST > 0
       THEN [score |-> positiveBEFAST * 20,
             factors |-> <<<<"positive BEFAST symptom(s) detected",
                             positiveBEFAST>>>>]
       ELSE [score |-> 0, factors |-> <<>>]

FacePart(data) ==
  IF data.faceAnalysis = None THEN [score |-> 0, factors |-> <<>>]
  ELSE LET asymmetry == data.faceAnalysis[1].asymmetry
       IN IF asymmetry > 300
            THEN [score |-> 30,
                  factors |-> <<<<"High facial asymmetry", asymmetry>>>>]
          ELSE IF asymmetry > 150
            THEN [score |-> 15,
                  factors |-> <<<<"Moderate facial asymmetry", asymmetry>>>>]
          ELSE [score |-> 0, factors |-> <<>>]

SpeechPart(data) ==
  IF data.speechAnalysis = None THEN [score |-> 0, factors |-> <<>>]
  ELSE LET speech == data.speechAnalysis[1]
       IN [score |-> (IF speech.isSlurred THEN 25 ELSE 0)
                     + (IF speech.confidence < 70 THEN 10 ELSE 0),
           factors |->
             (IF speech.isSlurred
                THEN <<<<"Slurred speech detected", 0>>>> ELSE <<>>)
             \o (IF speech.confidence < 70
                   THEN <<<<"Low speech recognition confidence", 0>>>>
                   ELSE <<>>)]

\* the level of an unclamped score
Level(score) ==
  IF score >= 70 THEN "HIGH" ELSE IF score >= 40 THEN "MEDIUM" ELSE "LOW"

\* a calculation that counts low confidence only for slurred speech
calculateLocally_ConfidenceIfSlurred(data) ==
  LET speech == data.speechAnalysis
      score == BefastPart(data).score + FacePart(data).score
               + (IF speech # None /\ speech[1].isSlurred
                    THEN 25 + (IF speech[1].confidence < 70 THEN 10 ELSE 0)
                    ELSE 0)
  IN [score |-> Number(Min(score, 100)),
      level |-> Level(score),
      factors |-> BefastPart(data).factors \o FacePart(data).factors
                  \o SpeechPart(data).factors]

\* a calculation whose level is taken with `>` in place of `>=`
calculateLocally_StrictLevel(data) ==
  LET score == BefastPart(data).score + FacePart(data).score
               + SpeechPart(data).score
  IN [score |-> Number(Min(score, 100)),
      level |-> IF score > 70 THEN "HIGH"
                ELSE IF score > 40 THEN "MEDIUM" ELSE "LOW",
      factors |-> BefastPart(data).factors \o FacePart(data).factors
                  \o SpeechPart(data).factors]

\* a calculation that brings the score under 100 with `%` in place of Math.min
calculateLocally_Wraps(data) ==
  LET score == BefastPart(data).score + FacePart(data).score
               + SpeechPart(data).score
  IN [score |-> Number(score % 100),
      level |-> Level(score),
      factors |-> BefastPart(data).factors \o FacePart(data).factors
                  \o SpeechPart(data).factors]

\* timestamp (Date.now()) is left out of the result
calculateLocally(data) ==
  LET score == BefastPart(data).score + FacePart(data).score
               + SpeechPart(data).score
  IN [score |-> Number(Min(score, 100)),
      level |-> Level(score),
      factors |-> BefastPart(data).factors \o FacePart(data).factors
                  \o SpeechPart(data).factors]

\* what JSON.parse(content).score can be: absent, a number, a string that
\* reads as a number (n), or any other string
JsonScores ==
  {[t |-> "undefined", n |-> 0], [t |-> "number", n |-> 0],
   [t |-> "number", n |-> 55], [t |-> "number", n |-> 150],
   [t |-> "number", n |-> -5], [t |-> "numeral", n |-> 85],
   [t |-> "text", n |-> 0]}

\* `v || 0`
OrZero(v) ==
  IF v.t = "undefined" \/ (v.t = "number" /\ v.n = 0)
    THEN [t |-> "number", n |-> 0] ELSE v

\* the number an argument of Math.max is converted to
ToNumber(v) == IF v.t = "text" THEN NaN ELSE Number(v.n)

\* the replies of the remote completion API, by the statement of analyzeRisk
\* they reach: fetch rejects; response.ok is false; response.json() rejects;
\* result.choices is missing; the first choice has no content; the content
\* is not JSON; the content is the JSON null; the content is an object
AiResults ==
  [score : JsonScores, level : {"", "HIGH"},
   factors : {<<>>, <<<<"remote factor", 0>>>>}]

NoAiResult == [score |-> [t |-> "undefined", n |-> 0], level |-> "",
               factors |-> <<>>]

RemoteFailures ==
  {"fetch rejects", "status not ok", "body not JSON", "no choices",
   "no content", "content not JSON", "content null"}

RemoteReplies ==
  {[kind |-> k, aiResult |-> NoAiResult] : k \in RemoteFailures}
  \cup {[kind |-> "object", aiResult |-> a] : a \in AiResults}

\* ------------------------------------------------------------------ state
VARIABLES
  \* fields of RealTimeVoiceAnalysisService
  audioContext, analyser, microphone, stream, isAnalyzing, analysisInterval,
  config, lastResults, onResultCallback, onErrorCallback,
  \* the browser: microphone streams whose tracks are live, audio contexts
  \* not yet closed, interval timers not yet cleared, and how many of each
  \* were ever created
  liveStreams, openContexts, activeTimers,
  streamsAcquired, contextsCreated, timersCreated,
  \* suspended async calls: initialize() awaiting getUserMedia, cleanup()
  \* awaiting audioContext.close()
  initCalls, pendingInit, pendingCleanup,
  \* what has been observed since the last session began or ended: the
  \* results passed to onResult, the raw classification of each of those
  \* ticks, the last error passed to an onError, whether 'Real-time
  \* analysis already running' was logged
  emitted, classified, lastError, warned,
  \* field of AIAdvisorService: whether NEXT_PUBLIC_OPENAI_API_KEY was set
  apiKey,
  \* the call of aiAdvisorService made last: its input, whether its promise
  \* is pending or settled, and what it settled with
  riskCall,
  \* the call of speechAnalysisService.analyzeSpeech made last: how the
\* offline analysis failed, if it did, what the Hugging Face client would
\* have done, and where the result came from
  speechCall,
  \* state of useAppStore
  befastAnswers, faceAnalysis, speechAnalysis, aiRiskScore, isEmergencyMode,
  currentScreen,
  \* the handler AnalysisPage is running: its position and the render it
  \* was created in
  pageTask,
  \* how many answers were given and how many captures were handled
  answersGiven, handled,
  \* the pure function applied last, with its argument and its result
  evaluated,
  \* TestPage: its React state and refs, the volume timers it created that
  \* were not cleared, the document's location, and the error callback that
  \* is running, if one is
  testPage

service == <<audioContext, analyser, microphone, stream, isAnalyzing,
             analysisInterval, config, lastResults, onResultCallback,
             onErrorCallback>>
browser == <<liveStreams, openContexts, activeTimers, streamsAcquired,
             contextsCreated, timersCreated>>
async == <<initCalls, pendingInit, pendingCleanup>>
observed == <<emitted, classified, lastError, warned>>
advisor == <<apiKey, riskCall>>
store == <<befastAnswers, faceAnalysis, speechAnalysis, aiRiskScore,
           isEmergencyMode, currentScreen>>
page == <<pageTask, speechCall, answersGiven, handled>>
lab == <<evaluated, testPage>>
app == <<advisor, store, page, lab>>
loop == <<service, browser, async, observed>>
vars == <<service, browser, async, observed, advisor, store, page, lab>>

\* the <<onResult, onError>> pairs a caller may pass; onError is optional
Handlers == {<<1, 3>>, <<2, Null>>}

NoError == [to |-> Null, msg |-> "none"]

\* the state after `new RealTimeVoiceAnalysisService(config)`
Constructed(cfg) ==
  /\ audioContext = Null
  /\ analyser = Null
  /\ microphone = Null
  /\ stream = Null
  /\ isAnalyzing = FALSE
  /\ analysisInterval = Null
  /\ config = cfg
  /\ lastResults = <<>>
  /\ onResultCallback = Null
  /\ onErrorCallback = Null
  /\ liveStreams = {}
  /\ openContexts = {}
  /\ activeTimers = {}
  /\ streamsAcquired = 0
  /\ contextsCreated = 0
  /\ timersCreated = 0
  /\ initCalls = 0
  /\ pendingInit = {}
  /\ pendingCleanup = {}
  /\ emitted = <<>>
  /\ classified = <<>>
  /\ lastError = NoError
  /\ warned = FALSE

NoRiskCall == [op |-> "none", data |-> None, state |-> "none",
               path |-> "none", reply |-> "none", value |-> None]

NoSpeechCall == [state |-> "none", failure |-> "none", hf |-> "none",
                 source |-> "none", value |-> None]

NoTask == [handler |-> "none", pc |-> "idle", render |-> None]

NoEvaluation == [op |-> "none", input |-> None, output |-> None]

\* TestPage as it is mounted
Mounted ==
  [showRealTimeAnalysis |-> FALSE, isRealTimeAnalyzing |-> FALSE,
   realTimeResult |-> None,
   analysisResults |-> [face |-> None, speech |-> None],
   volumeIntervalRef |-> Null, volumeTimers |-> {}, volumeTimersCreated |-> 0,
   location |-> "/test",
   \* the error callback being run: the realTimeResult its closure holds,
   \* and whether startRealTimeAnalysis goes on after it
   pc |-> "idle", sees |-> None, resumes |-> FALSE,
   \* the realTimeResult held by the closure of the callback registered
   installed |-> None]

\* initialBEFASTAnswers
initialBEFASTAnswers == [q \in Questions |-> "null"]

\* initialState of the store
initialState ==
  /\ befastAnswers = initialBEFASTAnswers
  /\ faceAnalysis = None
  /\ speechAnalysis = None
  /\ aiRiskScore = None
  /\ isEmergencyMode = FALSE
  /\ currentScreen = "befast"

\* the state after the modules of the application are loaded: the advisor
\* constructed with or without a key, the store in its initial state, no
\* page handler running
Loaded(key) ==
  /\ apiKey = key
  /\ riskCall = NoRiskCall
  /\ speechCall = NoSpeechCall
  /\ initialState
  /\ pageTask = NoTask
  /\ answersGiven = 0
  /\ handled = 0
  /\ evaluated = NoEvaluation
  /\ testPage = Mounted

\* the exported instance is constructed with the default configuration
Init == Constructed(DefaultConfig) /\ Loaded(FALSE)

\* an instance constructed with some other smoothingFactor
InitConfigured ==
  /\ \E sf \in SmoothingFactors :
       Constructed([DefaultConfig EXCEPT !.smoothingFactor = sf])
  /\ Loaded(FALSE)

\* the application with or without a key for the remote advisor
InitApp == Constructed(DefaultConfig) /\ \E key \in BOOLEAN : Loaded(key)

\* onError?.(new Error(msg))
Report(onError, msg) ==
  lastError' = IF onError = Null THEN lastError
               ELSE [to |-> onError, msg |-> msg]

\* ------------------------------------------------------------ startAnalysis
\* startAnalysis without its `if (this.isAnalyzing) return` guard
StartBody_Unguarded(a, onResult, onError) ==
  IF a = Null
    THEN /\ Report(onError, "Real-time analysis not initialized")
         /\ UNCHANGED <<isAnalyzing, analysisInterval, onResultCallback,
                        onErrorCallback, activeTimers, timersCreated,
                        emitted, classified, warned>>
  ELSE /\ onResultCallback' = onResult
       /\ onErrorCallback' = onError
       /\ isAnalyzing' = TRUE
       /\ timersCreated' = timersCreated + 1
       /\ analysisInterval' = timersCreated + 1
       /\ activeTimers' = activeTimers \cup {timersCreated + 1}
       /\ emitted' = <<>>
       /\ classified' = <<>>
       /\ lastError' = NoError
       /\ warned' = FALSE

\* the body of startAnalysis, run when the analyser field holds a
StartBody(a, onResult, onError) ==
  IF isAnalyzing
    THEN /\ warned' = TRUE
         /\ UNCHANGED <<isAnalyzing, analysisInterval, onResultCallback,
                        onErrorCallback, activeTimers, timersCreated,
                        emitted, classified, lastError>>
  ELSE IF a = Null
    THEN /\ Report(onError, "Real-time analysis not initialized")
         /\ UNCHANGED <<isAnalyzing, analysisInterval, onResultCallback,
                        onErrorCallback, activeTimers, timersCreated,
                        emitted, classified, warned>>
  ELSE /\ onResultCallback' = onResult
       /\ onErrorCallback' = onError
       /\ isAnalyzing' = TRUE
       /\ timersCreated' = timersCreated + 1
       /\ analysisInterval' = timersCreated + 1
       /\ activeTimers' = activeTimers \cup {timersCreated + 1}
       /\ emitted' = <<>>
       /\ classified' = <<>>
       /\ lastError' = NoError
       /\ warned' = FALSE

startAnalysis(onResult, onError) ==
  /\ StartBody(analyser, onResult, onError)
  /\ UNCHANGED <<audioContext, analyser, microphone, stream, config,
                 lastResults, liveStreams, openContexts, streamsAcquired,
                 contextsCreated, async>>

\* ------------------------------------------------------------- stopAnalysis
\* stopAnalysis that forgets the interval without clearing it
StopBody_LeavesTimer ==
  IF ~isAnalyzing
    THEN UNCHANGED <<isAnalyzing, analysisInterval, activeTimers,
                     onResultCallback, onErrorCallback, observed>>
  ELSE /\ isAnalyzing' = FALSE
       /\ analysisInterval' = Null
       /\ UNCHANGED activeTimers
       /\ onResultCallback' = Null
       /\ onErrorCallback' = Null
       /\ emitted' = <<>>
       /\ classified' = <<>>
       /\ lastError' = NoError
       /\ warned' = FALSE

\* the body of stopAnalysis, also the first statement of cleanup
StopBody ==
  IF ~isAnalyzing
    THEN UNCHANGED <<isAnalyzing, analysisInterval, activeTimers,
                     onResultCallback, onErrorCallback, observed>>
  ELSE /\ isAnalyzing' = FALSE
       /\ IF analysisInterval # Null
            THEN /\ activeTimers' = activeTimers \ {analysisInterval}
                 /\ analysisInterval' = Null
            ELSE UNCHANGED <<activeTimers, analysisInterval>>
       /\ onResultCallback' = Null
       /\ onErrorCallback' = Null
       /\ emitted' = <<>>
       /\ classified' = <<>>
       /\ lastError' = NoError
       /\ warned' = FALSE

\* stopAnalysis without `this.lastResults = []`
StopHistory_Keeps == lastResults

\* lastResults after the body of stopAnalysis
StopHistory == IF isAnalyzing THEN <<>> ELSE lastResults

\* stopAnalysis that also drops the analyser
stopAnalysis_ToIdle ==
  /\ StopBody
  /\ lastResults' = StopHistory
  /\ analyser' = Null
  /\ UNCHANGED <<audioContext, microphone, stream, config,
                 liveStreams, openContexts, streamsAcquired, contextsCreated,
                 timersCreated, async>>

stopAnalysis ==
  /\ StopBody
  /\ lastResults' = StopHistory
  /\ UNCHANGED <<audioContext, analyser, microphone, stream, config,
                 liveStreams, openContexts, streamsAcquired, contextsCreated,
                 timersCreated, async>>

\* --------------------------------------------------------------- initialize
NoStart == [start |-> FALSE, onResult |-> Null, onError |-> Null]

\* a call suspends at `await navigator.mediaDevices.getUserMedia(...)`;
\* then says whether the caller is startRealTimeAnalysis, which goes on to
\* startAnalysis(onResult, onError) when initialize resolves
Suspend(then) ==
  /\ initCalls' = initCalls + 1
  /\ pendingInit' = pendingInit \cup {[id |-> initCalls + 1, then |-> then]}
  /\ UNCHANGED <<service, browser, pendingCleanup, observed>>

initialize == Suspend(NoStart)

startRealTimeAnalysis(onResult, onError) ==
  Suspend([start |-> TRUE, onResult |-> onResult, onError |-> onError])

\* getUserMedia resolves: the rest of initialize runs, and the caller's
\* continuation after it
initializeResume(p) ==
  /\ p \in pendingInit
  /\ pendingInit' = pendingInit \ {p}
  /\ streamsAcquired' = streamsAcquired + 1
  /\ liveStreams' = liveStreams \cup {streamsAcquired + 1}
  /\ stream' = streamsAcquired + 1
  /\ contextsCreated' = contextsCreated + 1
  /\ openContexts' = openContexts \cup {contextsCreated + 1}
  /\ audioContext' = contextsCreated + 1
  /\ analyser' = contextsCreated + 1
  /\ microphone' = contextsCreated + 1
  /\ IF p.then.start
       THEN StartBody(contextsCreated + 1, p.then.onResult, p.then.onError)
       ELSE UNCHANGED <<isAnalyzing, analysisInterval, onResultCallback,
                        onErrorCallback, activeTimers, timersCreated,
                        emitted, classified, lastError, warned>>
  /\ UNCHANGED <<config, lastResults, initCalls, pendingCleanup>>

\* getUserMedia rejects: initialize throws, startRealTimeAnalysis catches
\* and reports to onError
initializeFail(p) ==
  /\ p \in pendingInit
  /\ pendingInit' = pendingInit \ {p}
  /\ IF p.then.start
       THEN Report(p.then.onError, "Microphone access denied or not available")
       ELSE UNCHANGED lastError
  /\ UNCHANGED <<service, browser, initCalls, pendingCleanup, emitted,
                 classified, warned>>

\* ------------------------------------------------------------------ cleanup
\* cleanup up to `await this.audioContext.close()`, or to its end when there
\* is no audio context.  close() on a context already closed rejects, and
\* the statements after the await are not run.
cleanup ==
  /\ StopBody
  /\ IF stream # Null
       THEN /\ liveStreams' = liveStreams \ {stream}
            /\ stream' = Null
       ELSE UNCHANGED <<liveStreams, stream>>
  /\ IF audioContext = Null
       THEN /\ analyser' = Null
            /\ microphone' = Null
            /\ lastResults' = <<>>
            /\ UNCHANGED <<openContexts, pendingCleanup>>
     ELSE IF audioContext \in openContexts
       THEN /\ openContexts' = openContexts \ {audioContext}
            /\ pendingCleanup' = pendingCleanup \cup {audioContext}
            /\ lastResults' = StopHistory
            /\ UNCHANGED <<analyser, microphone>>
     ELSE /\ lastResults' = StopHistory
          /\ UNCHANGED <<analyser, microphone, openContexts, pendingCleanup>>
  /\ UNCHANGED <<audioContext, config, streamsAcquired, contextsCreated,
                 timersCreated, initCalls, pendingInit>>

\* cleanup whose statements after the await leave the analyser in place
cleanupResume_KeepsAnalyser(c) ==
  /\ c \in pendingCleanup
  /\ pendingCleanup' = pendingCleanup \ {c}
  /\ audioContext' = Null
  /\ lastResults' = <<>>
  /\ UNCHANGED <<analyser, microphone, stream, isAnalyzing, analysisInterval,
                 config, onResultCallback, onErrorCallback, browser, initCalls,
                 pendingInit, observed>>

\* close() of context c resolved: the statements after the await
cleanupResume(c) ==
  /\ c \in pendingCleanup
  /\ pendingCleanup' = pendingCleanup \ {c}
  /\ audioContext' = Null
  /\ analyser' = Null
  /\ microphone' = Null
  /\ lastResults' = <<>>
  /\ UNCHANGED <<stream, isAnalyzing, analysisInterval, config,
                 onResultCallback, onErrorCallback, browser, initCalls,
                 pendingInit, observed>>

\* --------------------------------------------------- performRealTimeAnalysis
\* an interval timer that was not cleared fires
TimerFires == activeTimers # {}

\* `if (!this.analyser || !this.isAnalyzing) return;`
tickReturns ==
  /\ TimerFires
  /\ analyser = Null \/ ~isAnalyzing
  /\ UNCHANGED vars

\* the raw result of a tick: features, then classification
Classify(snap) ==
  IF config.sensitivity = DefaultConfig.sensitivity
    THEN Classifications[snap]
    ELSE analyzeRealTimeSpeech(extractRealTimeFeatures(snap, config))

\* a tick that stores the raw result and emits the smoothed one
tickResult_StoresRaw(snap) ==
  /\ TimerFires
  /\ ~(analyser = Null \/ ~isAnalyzing)
  /\ \E result \in {Classify(snap)} :
       \E smoothedResult \in {smoothResults(lastResults, result, config)} :
         /\ lastResults' = storeResult(lastResults, result)
         /\ emitted' = Append(emitted, smoothedResult)
         /\ classified' = Append(classified, result)
  /\ UNCHANGED <<audioContext, analyser, microphone, stream, isAnalyzing,
                 analysisInterval, config, onResultCallback, onErrorCallback,
                 browser, async, lastError, warned>>

\* the try block runs to its end on the analyser's snapshot
tickResult(snap) ==
  /\ TimerFires
  /\ ~(analyser = Null \/ ~isAnalyzing)
  /\ \E result \in {Classify(snap)} :
       \E smoothedResult \in {smoothResults(lastResults, result, config)} :
         /\ lastResults' = storeResult(lastResults, smoothedResult)
         /\ emitted' = Append(emitted, smoothedResult)
         /\ classified' = Append(classified, result)
  /\ UNCHANGED <<audioContext, analyser, microphone, stream, isAnalyzing,
                 analysisInterval, config, onResultCallback, onErrorCallback,
                 browser, async, lastError, warned>>

\* a catch block that ends the loop after reporting
tickThrows_Stops ==
  /\ TimerFires
  /\ ~(analyser = Null \/ ~isAnalyzing)
  /\ Report(onErrorCallback, "analysis error")
  /\ isAnalyzing' = FALSE
  /\ activeTimers' = activeTimers \ {analysisInterval}
  /\ analysisInterval' = Null
  /\ UNCHANGED <<audioContext, analyser, microphone, stream, config,
                 lastResults, onResultCallback, onErrorCallback, liveStreams,
                 openContexts, streamsAcquired, contextsCreated,
                 timersCreated, async, emitted, classified, warned>>

\* reading the analyser throws: the catch block reports it
tickThrows ==
  /\ TimerFires
  /\ ~(analyser = Null \/ ~isAnalyzing)
  /\ Report(onErrorCallback, "analysis error")
  /\ UNCHANGED <<service, browser, async, emitted, classified, warned>>

\* ---------------------------------------------------------------- advisor
\* what analyzeRisk returns from its try block or its catch block once the
\* remote API has replied
RemoteResult_Surfaces(data, reply) ==
  IF reply.kind \in RemoteFailures
    THEN [state |-> "rejected", path |-> "remote", value |-> None]
    ELSE [state |-> "resolved", path |-> "remote",
          value |-> Some([score |-> MathMin(MathMax(ToNumber(OrZero(
                                      reply.aiResult.score)), Number(0)),
                                    Number(100)),
                          level |-> IF reply.aiResult.level = ""
                                      THEN "LOW" ELSE reply.aiResult.level,
                          factors |-> reply.aiResult.factors])]

RemoteResult(data, reply) ==
  IF reply.kind \in RemoteFailures
    THEN [state |-> "resolved", path |-> "local",
          value |-> Some(calculateLocally(data))]
    ELSE [state |-> "resolved", path |-> "remote",
          value |-> Some([score |-> MathMin(MathMax(ToNumber(OrZero(
                                      reply.aiResult.score)), Number(0)),
                                    Number(100)),
                          level |-> IF reply.aiResult.level = ""
                                      THEN "LOW" ELSE reply.aiResult.level,
                          factors |-> reply.aiResult.factors])]

\* analyzeRisk(data) up to its await of fetch; without a key it returns the
\* local calculation at once
analyzeRisk(data) ==
  /\ riskCall.state # "pending"
  /\ riskCall' =
       IF ~apiKey
         THEN [op |-> "analyzeRisk", data |-> Some(data),
               state |-> "resolved", path |-> "local", reply |-> "none",
               value |-> Some(calculateLocally(data))]
         ELSE [op |-> "analyzeRisk", data |-> Some(data),
               state |-> "pending", path |-> "none", reply |-> "none",
               value |-> None]
  /\ UNCHANGED apiKey

\* analyzeRisk after the remote API replied
analyzeRiskResumes(reply) ==
  /\ riskCall.op = "analyzeRisk"
  /\ riskCall.state = "pending"
  /\ LET r == RemoteResult(riskCall.data[1], reply)
     IN riskCall' = [riskCall EXCEPT !.state = r.state, !.path = r.path,
                                     !.reply = reply.kind,
                                     !.value = r.value]
  /\ UNCHANGED apiKey

\* simulateAIAnalysis(data) up to its timer of 2000 ms
simulateAIAnalysis(data) ==
  /\ riskCall.state # "pending"
  /\ riskCall' = [op |-> "simulateAIAnalysis", data |-> Some(data),
                  state |-> "pending", path |-> "none", reply |-> "none",
                  value |-> None]
  /\ UNCHANGED apiKey

\* the timer of simulateAIAnalysis fires
simulateAIAnalysisResumes ==
  /\ riskCall.op = "simulateAIAnalysis"
  /\ riskCall.state = "pending"
  /\ riskCall' = [riskCall EXCEPT
                    !.state = "resolved", !.path = "local",
                    !.value = Some(calculateLocally(riskCall.data[1]))]
  /\ UNCHANGED apiKey

\* ------------------------------------------------------------------ store
\* useAppStore (its source is the second half of faceAnalysis.ts)
updateBEFASTAnswer(question, answer) ==
  /\ befastAnswers' = [befastAnswers EXCEPT ![question] = answer]
  /\ UNCHANGED <<faceAnalysis, speechAnalysis, aiRiskScore, isEmergencyMode,
                 currentScreen>>

setFaceAnalysis(analysis) ==
  /\ faceAnalysis' = Some(analysis)
  /\ UNCHANGED <<befastAnswers, speechAnalysis, aiRiskScore, isEmergencyMode,
                 currentScreen>>

setSpeechAnalysis(analysis) ==
  /\ speechAnalysis' = Some(analysis)
  /\ UNCHANGED <<befastAnswers, faceAnalysis, aiRiskScore, isEmergencyMode,
                 currentScreen>>

\* `score.score > 70`; a comparison with NaN is false
Above70(score) == ~score.score.nan /\ score.score.n > 70

\* a store that triggers the emergency with `>=` in place of `>`
setAIRiskScore_AtThreshold(score) ==
  /\ aiRiskScore' = Some(score)
  /\ IF ~score.score.nan /\ score.score.n >= 70
       THEN isEmergencyMode' = TRUE /\ currentScreen' = "time"
       ELSE UNCHANGED <<isEmergencyMode, currentScreen>>
  /\ UNCHANGED <<befastAnswers, faceAnalysis, speechAnalysis>>

setAIRiskScore(score) ==
  /\ aiRiskScore' = Some(score)
  /\ IF Above70(score)
       THEN isEmergencyMode' = TRUE /\ currentScreen' = "time"
       ELSE UNCHANGED <<isEmergencyMode, currentScreen>>
  /\ UNCHANGED <<befastAnswers, faceAnalysis, speechAnalysis>>

\* ----------------------------------------------------------- speech service
\* what can go wrong inside SimpleOfflineSpeechAnalysisService.analyzeSpeech
SpeechFailures ==
  {"arrayBuffer rejects", "no AudioContext", "decodeAudioData rejects",
   "feature extraction throws"}

\* what simulateSpeechAnalysis can resolve with: slurred speech has a
\* confidence below 0.7, normal speech a confidence of at least 0.7
SimulatedSpeech ==
  {[isSlurred |-> TRUE, confidence |-> 69],
   [isSlurred |-> FALSE, confidence |-> 70]}

\* one recording handed to analyzeSpeech: whether and how the offline
\* analysis fails, what it finds otherwise, what the simulation draws, and
\* what the Hugging Face client would do (it exists only with a key)
SpeechAttempts ==
  [failure : {"none"} \cup SpeechFailures,
   analysis : SpeechResults,
   simulated : SimulatedSpeech,
   hf : {"no key", "fails", "transcribes"}]

\* an offline analysis whose catch block rethrows
offlineAnalyzeSpeech_Rethrows(attempt) ==
  IF attempt.failure = "none"
    THEN [state |-> "resolved", source |-> "offline",
          value |-> Some(attempt.analysis)]
    ELSE [state |-> "rejected", source |-> "offline", value |-> None]

\* SimpleOfflineSpeechAnalysisService.analyzeSpeech
offlineAnalyzeSpeech(attempt) ==
  IF attempt.failure = "none"
    THEN [state |-> "resolved", source |-> "offline",
          value |-> Some(attempt.analysis)]
    ELSE [state |-> "resolved", source |-> "simulation",
          value |-> Some(attempt.simulated)]

\* SpeechAnalysisService.analyzeSpeech
analyzeSpeech(attempt) ==
  LET offline == offlineAnalyzeSpeech(attempt)
  IN IF offline.state = "resolved" THEN offline
     ELSE IF attempt.hf = "transcribes"
       THEN [state |-> "resolved", source |-> "huggingface",
             value |-> Some(attempt.analysis)]
     ELSE [state |-> "resolved", source |-> "simulation",
           value |-> Some(attempt.simulated)]

\* ------------------------------------------------------------ analysis page
\* the values of the store a render of AnalysisPage destructured; the
\* handlers created in that render read these
Rendered ==
  [befastAnswers |-> befastAnswers, faceAnalysis |-> faceAnalysis,
   speechAnalysis |-> speechAnalysis]

\* handleFaceCapture up to its await of analyzeFace
handleFaceCapture ==
  /\ pageTask.pc = "idle"
  /\ pageTask' = [handler |-> "face", pc |-> "analyzeFace",
                  render |-> Some(Rendered)]
  /\ handled' = handled + 1
  /\ UNCHANGED <<advisor, store, speechCall, answersGiven>>

\* analyzeFace resolves: setFaceAnalysis, then await simulateSpeechAnalysis
analyzeFaceResolves(faceResult) ==
  /\ pageTask.pc = "analyzeFace"
  /\ setFaceAnalysis(faceResult)
  /\ pageTask' = [pageTask EXCEPT !.pc = "simulateSpeechAnalysis"]
  /\ UNCHANGED <<advisor, speechCall, answersGiven, handled>>

\* calculateFinalRiskScore up to its await: the handler calls the function
\* of its own render
calculateFinalRiskScore ==
  /\ simulateAIAnalysis(pageTask.render[1])
  /\ pageTask' = [pageTask EXCEPT !.pc = "calculateFinalRiskScore"]

\* simulateSpeechAnalysis resolves: setSpeechAnalysis, then
\* await calculateFinalRiskScore()
simulateSpeechResolves(speechResult) ==
  /\ pageTask.pc = "simulateSpeechAnalysis"
  /\ setSpeechAnalysis(speechResult)
  /\ calculateFinalRiskScore
  /\ UNCHANGED <<speechCall, answersGiven, handled>>

\* handleSpeechRecording up to its await of analyzeSpeech
handleSpeechRecording ==
  /\ pageTask.pc = "idle"
  /\ pageTask' = [handler |-> "speech", pc |-> "analyzeSpeech",
                  render |-> Some(Rendered)]
  /\ speechCall' = [state |-> "pending", failure |-> "none",
                    hf |-> "none", source |-> "none", value |-> None]
  /\ handled' = handled + 1
  /\ UNCHANGED <<advisor, store, answersGiven>>

\* analyzeSpeech settles: setSpeechAnalysis, then
\* await calculateFinalRiskScore()
analyzeSpeechResolves(attempt) ==
  /\ pageTask.pc = "analyzeSpeech"
  /\ LET settled == analyzeSpeech(attempt)
     IN /\ speechCall' = [state |-> settled.state,
                          failure |-> attempt.failure, hf |-> attempt.hf,
                          source |-> settled.source, value |-> settled.value]
        /\ setSpeechAnalysis(settled.value[1])
  /\ calculateFinalRiskScore
  /\ UNCHANGED <<answersGiven, handled>>

\* calculateFinalRiskScore after simulateAIAnalysis resolved:
\* setAIRiskScore(riskScore); the handler ends with setIsAnalyzing(false)
calculateFinalRiskScoreResumes ==
  /\ pageTask.pc = "calculateFinalRiskScore"
  /\ riskCall.state = "resolved"
  /\ setAIRiskScore(riskCall.value[1])
  /\ pageTask' = [pageTask EXCEPT !.pc = "idle"]
  /\ UNCHANGED <<advisor, speechCall, answersGiven, handled>>

\* the user answers a BEFAST question
answers(question, answer) ==
  /\ updateBEFASTAnswer(question, answer)
  /\ answersGiven' = answersGiven + 1
  /\ UNCHANGED <<advisor, pageTask, speechCall, handled>>

\* ------------------------------------------------ single-shot speech
\* A feature of a recording is NaN or a number, kept to the unit below:
\* rms and zeroCrossingRate in thousandths, duration in hundredths of a
\* second, spectralCentroid and pitch in Hz.
Gt(x, k) == ~x.nan /\ x.n > k

Lt(x, k) == ~x.nan /\ x.n < k

\* `n / d` in units of 1/unit for a count n: 0 / 0 is NaN and 0 / -1 is -0;
\* n is 0 whenever d is
Quotient(n, d, unit) ==
  IF d = 0 THEN NaN
  ELSE IF n = 0 THEN Number(0)
  ELSE Number((n * unit) \div d)

\* Math.sqrt of a value in millionths, in thousandths
MathSqrt(x) ==
  IF x.nan THEN NaN
  ELSE Number(CHOOSE r \in 0..1000 : r * r <= x.n /\ (r + 1) * (r + 1) > x.n)

\* the sample rate of the audio context that decodes the recording
SampleRate == 8000

fftSize == 1024

hopSize == 512

minFreq == 80

maxFreq == 400

\* `channelData.reduce((sum, sample) => sum + sample * sample, 0)`: every
\* sample is -1, 0 or 1, so that sample * sample is 0 or 1
SumOfSquares(samples) ==
  Cardinality({i \in 1..Len(samples) : samples[i] # 0})

\* the frames the loop of calculateSpectralCentroid visits (from 0)
FrameStarts(n) == {i \in 0..(n - fftSize - 1) : i % hopSize = 0}

\* some frame holds a sample that is not 0: only then is a magnitude, and
\* weightSum, above 0
Heard(samples) ==
  \E i \in FrameStarts(Len(samples)) :
    \E j \in 1..fftSize : samples[i + j] # 0

\* heard is the centroid of the magnitudes when there are any
calculateSpectralCentroid(samples, heard) ==
  IF Heard(samples) THEN Number(heard) ELSE Number(0)

calculateZeroCrossingRate(samples) ==
  LET crossings ==
        Cardinality({i \in 2..Len(samples) :
                       (samples[i] >= 0) # (samples[i - 1] >= 0)})
  IN Quotient(crossings, Len(samples) - 1, 1000)

\* `correlation += samples[i] * samples[i + period]` over the recording
Correlation(samples, period) ==
  Cardinality({i \in 1..(Len(samples) - period) :
                 samples[i] * samples[i + period] = 1})
  - Cardinality({i \in 1..(Len(samples) - period) :
                   samples[i] * samples[i + period] = -1})

\* the for loop of calculatePitch from `period` on
RECURSIVE PitchLoop(_, _, _, _)
PitchLoop(samples, period, bestPeriod, bestCorrelation) ==
  IF ~(period < SampleRate \div minFreq /\ 2 * period < Len(samples))
    THEN bestPeriod
  ELSE LET correlation == Correlation(samples, period)
       IN IF correlation > bestCorrelation
            THEN PitchLoop(samples, period + 1, period, correlation)
            ELSE PitchLoop(samples, period + 1, bestPeriod, bestCorrelation)

calculatePitch(samples) ==
  LET bestPeriod == PitchLoop(samples, SampleRate \div maxFreq, 0, 0)
  IN IF bestPeriod > 0 THEN Quotient(SampleRate, bestPeriod, 1)
     ELSE Number(0)

extractAudioFeatures(samples, heard) ==
  [duration |-> Quotient(Len(samples), SampleRate, 100),
   rms |-> MathSqrt(Quotient(SumOfSquares(samples), Len(samples), 1000000)),
   spectralCentroid |-> calculateSpectralCentroid(samples, heard),
   zeroCrossingRate |-> calculateZeroCrossingRate(samples),
   pitch |-> calculatePitch(samples)]

\* the confidence before `Math.min(0.95, Math.max(0.3, confidence))`
PatternBonuses(f) ==
  LET c0 == Tenths[5]
      c1 == Bonus(c0, Gt(f.rms, 50), 15)
      c2 == Bonus(c1, Gt(f.rms, 100), 15)
      c3 == Bonus(c2, Gt(f.rms, 200), 10)
      c4 == Bonus(c3, Gt(f.duration, 50), 10)
      c5 == Bonus(c4, Gt(f.duration, 100), 10)
      c6 == Bonus(c5, Gt(f.duration, 200), 5)
      c7 == Bonus(c6, Gt(f.spectralCentroid, 800)
                      /\ Lt(f.spectralCentroid, 3500), 10)
      c8 == Bonus(c7, Gt(f.zeroCrossingRate, 10)
                      /\ Lt(f.zeroCrossingRate, 80), 10)
  IN Bonus(c8, Gt(f.pitch, 80) /\ Lt(f.pitch, 400), 10)

\* a confidence that is not capped
Cap_Missing(confidence) == confidence

\* `Math.min(0.95, Math.max(0.3, confidence))`
Cap(confidence) == DMin(Hundredths[95], DMax(Tenths[3], confidence))

slurredReasons(f) ==
  (IF Lt(f.rms, 30) THEN {"low volume"} ELSE {})
  \cup (IF Gt(f.zeroCrossingRate, 120) THEN {"high noise"} ELSE {})
  \cup (IF Lt(f.spectralCentroid, 300) \/ Gt(f.spectralCentroid, 5000)
          THEN {"abnormal frequency"} ELSE {})
  \cup (IF Lt(f.duration, 30) THEN {"too short"}
        ELSE IF Gt(f.duration, 1500) THEN {"too long"} ELSE {})
  \cup (IF Lt(f.pitch, 50) \/ Gt(f.pitch, 600)
          THEN {"abnormal pitch"} ELSE {})

\* a verdict that a low confidence alone makes abnormal
PatternIsSlurred_LowConfidence(f) ==
  slurredReasons(f) # {} \/ DLess(Cap(PatternBonuses(f)), Tenths[6])

\* isSlurred is set wherever a reason is pushed
PatternIsSlurred(f) == slurredReasons(f) # {}

\* the phrase is picked at random inside one of the two lists
analyzeSpeechPatterns(f) ==
  [confidence |-> Cap(PatternBonuses(f)),
   isSlurred |-> PatternIsSlurred(f),
   reasons |-> slurredReasons(f),
   transcription |-> IF PatternIsSlurred(f) THEN "slurred phrase"
                     ELSE "normal phrase"]

\* feature values on both sides of every threshold of analyzeSpeechPatterns
PatternFeatures ==
  [rms : {NaN} \cup {Number(n) : n \in {0, 29, 30, 50, 51, 101, 201}},
   duration : {Number(n) : n \in {0, 29, 30, 51, 101, 201, 1500, 1501}},
   spectralCentroid :
     {Number(n) : n \in {0, 299, 300, 801, 3499, 5000, 5001}},
   zeroCrossingRate : {NaN} \cup {Number(n) : n \in {0, 11, 79, 120, 121}},
   pitch : {Number(n) : n \in {0, 49, 50, 81, 399, 600, 601}}]

\* recordings: every one of at most MaxSamples samples, silence longer than
\* one and than two frames, and a square wave of period 40 longer than one
Recordings ==
  UNION {[1..n -> {-1, 0, 1}] : n \in 0..MaxSamples}
  \cup {[i \in 1..n |-> 0] : n \in {fftSize + 1, fftSize + hopSize + 1}}
  \cup {[i \in 1..(fftSize + 76) |->
           IF ((i - 1) \div 20) % 2 = 0 THEN 1 ELSE -1]}

\* centroids of a recording that is heard
HeardCentroids == {299, 1000}

\* --------------------------------------------------------- face asymmetry
\* the double of n/20
Twentieths == [n \in 0..20 |-> DOf(n, 20)]

\* Math.abs(x - y)
AbsDiff(x, y) == IF DLess(x, y) THEN DSub(y, x) ELSE DSub(x, y)

\* a right landmark taken as it is
Mirror_None(x) == x

\* `1 - x`
Mirror(x) == DSub(DInt(1), x)

\* landmarks hold the x of each landmark in twentieths of the image width
calculateFacialAsymmetry(landmarks) ==
  LET x == [k \in DOMAIN landmarks |-> Twentieths[landmarks[k]]]
      eyeAsymmetry ==
        DMul(AbsDiff(x.leftEye, Mirror(x.rightEye)), DInt(100))
      mouthAsymmetry ==
        DMul(AbsDiff(x.leftMouth, Mirror(x.rightMouth)), DInt(100))
      faceCenter == DMul(DAdd(x.noseTip, x.chin), Tenths[5])
      faceAsymmetry == DMul(AbsDiff(faceCenter, Tenths[5]), DInt(100))
      totalAsymmetry ==
        DAdd(DAdd(DMul(eyeAsymmetry, Tenths[4]),
                  DMul(mouthAsymmetry, Tenths[4])),
             DMul(faceAsymmetry, Tenths[2]))
  IN DMin(totalAsymmetry, DInt(100))

\* positions of the six landmarks: eyes at 0, 1/4, 3/10, 7/10, 3/4 and 1 of
\* the width, mouth corners at 0, 3/10, 7/10 and 1, nose tip and chin at
\* 3/10, 1/2 and 1
Landmarks ==
  [leftEye : {0, 5, 6, 14, 15, 20}, rightEye : {0, 5, 6, 14, 15, 20},
   leftMouth : {0, 6, 14, 20}, rightMouth : {0, 6, 14, 20},
   noseTip : {6, 10, 20}, chin : {6, 10, 20}]

\* ---------------------------------------------------------- pure functions
\* one application of a function that reads and writes no state
Evaluate(op, input, output) ==
  /\ evaluated = NoEvaluation
  /\ evaluated' = [op |-> op, input |-> Some(input), output |-> Some(output)]
  /\ UNCHANGED <<loop, advisor, store, page, testPage>>

\* the classification of one tick of the default loop
classifyTick(snap) ==
  LET features == extractRealTimeFeatures(snap, DefaultConfig)
  IN Evaluate("analyzeRealTimeSpeech", features,
              analyzeRealTimeSpeech(features))

\* the single-shot classifier on one feature vector
classifyRecording(features) ==
  Evaluate("analyzeSpeechPatterns", features, analyzeSpeechPatterns(features))

\* analyzeSpeech on a decoded recording: extraction, then classification
analyzeRecording(samples, heard) ==
  LET features == extractAudioFeatures(samples, heard)
  IN Evaluate("extractAudioFeatures", samples,
              [features |-> features,
               analysis |-> analyzeSpeechPatterns(features)])

\* the asymmetry of one set of landmarks
measureFace(landmarks) ==
  Evaluate("calculateFacialAsymmetry", landmarks,
           calculateFacialAsymmetry(landmarks))

\* ----------------------------------------------------------------- TestPage
\* the questions that have NO and YES buttons (hasAnalysis false)
AnswerButtons == {"balance", "eyes", "arms"}

\* asymmetries (tenths of a percent) on both sides of 10% and of 15%
TestFaceResults == {[asymmetry |-> a] : a \in {100, 101, 150, 151}}

\* the page is displayed and no handler of it is running
Displayed == testPage.pc = "idle" /\ testPage.location # "left"

\* the view with the questions and the live risk score is rendered
MainShown == Displayed /\ ~testPage.showRealTimeAnalysis

\* RealTimeVoiceAnalysisComponent is rendered
LiveShown == Displayed /\ testPage.showRealTimeAnalysis

calculateScore(given, results) ==
  LET positiveBEFAST == Cardinality({q \in Questions : given[q] = "true"})
      face == IF results.face = None THEN 0
              ELSE IF results.face[1].asymmetry > 150 THEN 25
              ELSE IF results.face[1].asymmetry > 100 THEN 15
              ELSE 0
      speech == IF results.speech = None THEN 0
                ELSE (IF results.speech[1].isSlurred THEN 25 ELSE 0)
                     + (IF DLess(results.speech[1].confidence, Tenths[7])
                          THEN 10 ELSE 0)
      score == positiveBEFAST * 20 + face + speech
  IN [score |-> score,
      level |-> IF score >= 50 THEN "HIGH"
                ELSE IF score >= 25 THEN "MEDIUM" ELSE "LOW"]

\* handleAnswer: YES assigns window.location.href, and the document stays
\* in place until the navigation commits
handleAnswer(questionKey, answer) ==
  /\ updateBEFASTAnswer(questionKey, answer)
  /\ testPage' = IF answer = "true"
                   THEN [testPage EXCEPT !.location = "leaving"]
                   ELSE testPage
  /\ answersGiven' = answersGiven + 1
  /\ UNCHANGED <<loop, advisor, pageTask, speechCall, handled, evaluated>>

\* the navigation commits: /neurologist replaces the document
leave ==
  /\ testPage.location = "leaving"
  /\ testPage' = [testPage EXCEPT !.location = "left"]
  /\ UNCHANGED <<loop, advisor, store, page, evaluated>>

\* Start Face Analysis, Capture: analyzeFace resolves and the rest of
\* handleFaceAnalysis runs
handleFaceAnalysis(faceResult) ==
  /\ setFaceAnalysis(faceResult)
  /\ testPage' = [testPage EXCEPT !.analysisResults.face = Some(faceResult)]
  /\ UNCHANGED <<loop, advisor, page, evaluated>>

\* the Live Analysis button
showLiveAnalysis ==
  /\ testPage' = [testPage EXCEPT !.showRealTimeAnalysis = TRUE]
  /\ UNCHANGED <<loop, advisor, store, page, evaluated>>

\* onClose of the real-time view
onClose ==
  /\ testPage' = [testPage EXCEPT !.showRealTimeAnalysis = FALSE]
  /\ UNCHANGED <<loop, advisor, store, page, evaluated>>

\* startRealTimeAnalysis of the page up to its await
onStart ==
  /\ Suspend([start |-> TRUE, onResult |-> 1, onError |-> 3,
              sees |-> testPage.realTimeResult])
  /\ testPage' = [testPage EXCEPT !.isRealTimeAnalyzing = TRUE,
                                  !.showRealTimeAnalysis = TRUE]
  /\ UNCHANGED <<advisor, store, page, evaluated>>

\* `volumeIntervalRef.current = window.setInterval(...)`
StartVolume(tp) ==
  [tp EXCEPT !.volumeTimersCreated = @ + 1,
             !.volumeIntervalRef = tp.volumeTimersCreated + 1,
             !.volumeTimers = @ \cup {tp.volumeTimersCreated + 1}]

\* what stopRealTimeAnalysis of the page does to the page, in a render in
\* which realTimeResult is `sees`
StopPage(tp, sees) ==
  [tp EXCEPT !.isRealTimeAnalyzing = FALSE,
             !.showRealTimeAnalysis = FALSE,
             !.volumeTimers = IF tp.volumeIntervalRef # Null
                                THEN @ \ {tp.volumeIntervalRef} ELSE @,
             !.volumeIntervalRef = Null,
             !.analysisResults.speech =
               IF sees # None
                 THEN Some([isSlurred |-> sees[1].isSlurred,
                            confidence |-> sees[1].confidence])
                 ELSE @]

\* initialize resolves, startAnalysis runs, and startRealTimeAnalysis of the
\* page goes on after its await
startResolves(p) ==
  /\ initializeResume(p)
  /\ testPage' = IF isAnalyzing THEN StartVolume(testPage)
                 ELSE [StartVolume(testPage) EXCEPT !.installed = p.then.sees]
  /\ UNCHANGED <<advisor, store, page, evaluated>>

\* initialize rejects: the service calls the page's error callback
startFails(p) ==
  /\ initializeFail(p)
  /\ testPage' = [testPage EXCEPT !.pc = "onError", !.sees = p.then.sees,
                                  !.resumes = TRUE]
  /\ UNCHANGED <<advisor, store, page, evaluated>>

\* a tick throws: the loop calls the page's error callback
tickFails ==
  /\ tickThrows
  /\ testPage' = [testPage EXCEPT !.pc = "onError",
                                  !.sees = testPage.installed,
                                  !.resumes = FALSE]
  /\ UNCHANGED <<advisor, store, page, evaluated>>

\* the error callback: stopRealTimeAnalysis of the render the analysis was
\* started in, up to the await inside cleanup; after an init failure,
\* startRealTimeAnalysis of the page then goes on after its await
errorCallback ==
  /\ testPage.pc = "onError"
  /\ cleanup
  /\ testPage' =
       LET stopped == StopPage(testPage, testPage.sees)
           after == IF testPage.resumes THEN StartVolume(stopped)
                    ELSE stopped
       IN [after EXCEPT !.pc = "idle", !.sees = None, !.resumes = FALSE]
  /\ UNCHANGED <<advisor, store, page, evaluated>>

\* Stop Analysis: stopRealTimeAnalysis of the current render
onStop ==
  /\ cleanup
  /\ testPage' = StopPage(testPage, testPage.realTimeResult)
  /\ UNCHANGED <<advisor, store, page, evaluated>>

\* the result callback: setRealTimeResult(result)
onResult(snap) ==
  /\ tickResult(snap)
  /\ testPage' =
       [testPage EXCEPT !.realTimeResult = Some(emitted'[Len(emitted')])]
  /\ UNCHANGED <<advisor, store, page, evaluated>>

\* close() resolved for a cleanup the page started
closeResolves(c) ==
  /\ cleanupResume(c)
  /\ UNCHANGED app

\* Start Over: resetApp() and setAnalysisResults({})
startOver ==
  /\ befastAnswers' = initialBEFASTAnswers
  /\ faceAnalysis' = None
  /\ speechAnalysis' = None
  /\ aiRiskScore' = None
  /\ isEmergencyMode' = FALSE
  /\ currentScreen' = "befast"
  /\ testPage' = [testPage EXCEPT
                    !.analysisResults = [face |-> None, speech |-> None]]
  /\ UNCHANGED <<loop, advisor, page, evaluated>>

\* ------------------------------------------------------------ specification
\* number of times the signal changed between the ticks of a session
InputChanges(raws) ==
  Cardinality({i \in 1..(Len(raws) - 1) : raws[i] # raws[i + 1]})

\* a successful startAnalysis creates a timer
CreatesTimer(a) == ~isAnalyzing /\ a # Null

\* no asynchronous call is suspended
Settled == pendingInit = {} /\ pendingCleanup = {}

\* maxInits initialize calls, maxStarts sessions, maxTicks results and
\* maxChanges changes of the signal a session, callbacks from handlers;
\* with awaited, a call is made only when the calls before it have
\* completed
NextWith(maxInits, maxStarts, maxTicks, maxChanges, handlers, awaited) ==
  \/ /\ awaited => Settled
     /\ initCalls < maxInits
     /\ initialize
     /\ UNCHANGED app
  \/ /\ awaited => Settled
     /\ initCalls < maxInits
     /\ \E h \in handlers : startRealTimeAnalysis(h[1], h[2])
     /\ UNCHANGED app
  \/ \E p \in pendingInit :
       /\ (p.then.start /\ ~isAnalyzing) => timersCreated < maxStarts
       /\ initializeResume(p)
       /\ UNCHANGED app
  \/ \E p \in pendingInit : initializeFail(p) /\ UNCHANGED app
  \/ /\ awaited => Settled
     /\ CreatesTimer(analyser) => timersCreated < maxStarts
     /\ \E h \in handlers : startAnalysis(h[1], h[2])
     /\ UNCHANGED app
  \/ /\ awaited => Settled
     /\ stopAnalysis
     /\ UNCHANGED app
  \/ /\ awaited => Settled
     /\ cleanup
     /\ UNCHANGED app
  \/ \E c \in pendingCleanup : cleanupResume(c) /\ UNCHANGED app
  \/ \E snap \in Snapshots :
       /\ Len(emitted) < maxTicks
       /\ InputChanges(Append(classified, Classify(snap))) <= maxChanges
       /\ tickResult(snap)
       /\ UNCHANGED app
  \/ tickThrows /\ UNCHANGED app

\* any call at any time; a timer can then outlive the analyser (a cleanup
\* resuming after a later startAnalysis), which is when a tick returns early
Next ==
  \/ NextWith(MaxInits, MaxStarts, RaceTicks, RaceTicks, Handlers, FALSE)
  \/ tickReturns
Spec == Init /\ [][Next]_vars

\* every call runs to completion before the next one is made
NextAwaited ==
  NextWith(MaxInits, MaxStarts, ShortSession, ShortSession, Handlers, TRUE)
SpecAwaited == InitConfigured /\ [][NextAwaited]_vars

\* long sessions of a loop that is initialised once and started with the
\* page's two callbacks
NextSession ==
  NextWith(SessionInits, SessionInits, MaxTicks, MaxInputChanges,
           {<<1, 3>>}, TRUE)
SpecSession == Init /\ [][NextSession]_vars

\* one call of the advisor with any input, the remote API replying in any
\* way; calls share no state, so one call is followed to its end
NextAdvisor ==
  \/ /\ riskCall = NoRiskCall
     /\ \E data \in AnalysisInputs : analyzeRisk(data)
     /\ UNCHANGED <<loop, store, page, lab>>
  \/ /\ riskCall.state = "pending"
     /\ \E reply \in RemoteReplies : analyzeRiskResumes(reply)
     /\ UNCHANGED <<loop, store, page, lab>>
  \/ /\ riskCall = NoRiskCall
     /\ \E data \in AnalysisInputs : simulateAIAnalysis(data)
     /\ UNCHANGED <<loop, store, page, lab>>
  \/ simulateAIAnalysisResumes /\ UNCHANGED <<loop, store, page, lab>>
SpecAdvisor == InitApp /\ [][NextAdvisor]_vars

\* the user answers questions of the assessment, then has the analysis
\* page handle captures and recordings: at most MaxAnswers answers and
\* MaxHandled handler runs
NextPage ==
  \/ /\ answersGiven < MaxAnswers
     /\ handled = 0
     /\ \E q \in Questions : \E a \in {"true", "false"} : answers(q, a)
     /\ UNCHANGED <<loop, lab>>
  \/ /\ handled < MaxHandled
     /\ handleFaceCapture
     /\ UNCHANGED <<loop, lab>>
  \/ \E faceResult \in FaceResults :
       analyzeFaceResolves(faceResult) /\ UNCHANGED <<loop, lab>>
  \/ \E speechResult \in SimulatedSpeech :
       simulateSpeechResolves(speechResult) /\ UNCHANGED <<loop, lab>>
  \/ /\ handled < MaxHandled
     /\ handleSpeechRecording
     /\ UNCHANGED <<loop, lab>>
  \/ /\ pageTask.pc = "analyzeSpeech"
     /\ \E attempt \in SpeechAttempts : analyzeSpeechResolves(attempt)
     /\ UNCHANGED <<loop, lab>>
  \/ simulateAIAnalysisResumes /\ UNCHANGED <<loop, store, page, lab>>
  \/ calculateFinalRiskScoreResumes /\ UNCHANGED <<loop, lab>>
SpecPage == Init /\ [][NextPage]_vars

\* each pure function applied once to any of its inputs
NextFunctions ==
  \/ /\ evaluated = NoEvaluation
     /\ \E snap \in TickSnapshots : classifyTick(snap)
  \/ /\ evaluated = NoEvaluation
     /\ \E features \in PatternFeatures : classifyRecording(features)
  \/ /\ evaluated = NoEvaluation
     /\ \E samples \in Recordings :
          \E heard \in (IF Heard(samples) THEN HeardCentroids ELSE {0}) :
            analyzeRecording(samples, heard)
  \/ /\ evaluated = NoEvaluation
     /\ \E landmarks \in Landmarks : measureFace(landmarks)
SpecFunctions == Init /\ [][NextFunctions]_vars

\* TestPage with the loop behind it
NextTest ==
  \/ /\ MainShown
     /\ answersGiven < TestAnswers
     /\ \E q \in AnswerButtons : \E a \in {"true", "false"} :
          handleAnswer(q, a)
  \/ leave
  \/ /\ MainShown
     /\ \E faceResult \in TestFaceResults : handleFaceAnalysis(faceResult)
  \/ MainShown /\ showLiveAnalysis
  \/ LiveShown /\ onClose
  \/ /\ LiveShown
     /\ ~testPage.isRealTimeAnalyzing
     /\ initCalls < TestStarts
     /\ onStart
  \/ /\ Displayed
     /\ \E p \in pendingInit : startResolves(p)
  \/ /\ Displayed
     /\ \E p \in pendingInit : startFails(p)
  \/ /\ Displayed
     /\ tickFails
  \/ errorCallback
  \/ /\ LiveShown
     /\ testPage.isRealTimeAnalyzing
     /\ onStop
  \/ /\ Displayed
     /\ Len(emitted) < TestTicks
     /\ \E snap \in Snapshots : onResult(snap)
  \/ /\ Displayed
     /\ \E c \in pendingCleanup : closeResolves(c)
  \/ MainShown /\ startOver
SpecTest == Init /\ [][NextTest]_vars

\* ------------------------------------------------------------------ claims

\* C1: on one loop instance at most one analysis timer is active after any
\* sequence of calls, and a step taken while the loop is analyzing that
\* leaves it analyzing (a startAnalysis call among them) creates no timer
\* and does not replace the registered callbacks.
C1_SingleTimer ==
  /\ [](Cardinality(activeTimers) <= 1)
  /\ [][(isAnalyzing /\ isAnalyzing') =>
          UNCHANGED <<activeTimers, timersCreated, analysisInterval,
                      onResultCallback, onErrorCallback>>]_vars

\* startAnalysis was called on an analyzing loop, which still has one timer
C1_Witness ==
  /\ warned
  /\ isAnalyzing
  /\ activeTimers = {analysisInterval}

\* a cleanup call reaches its last statement
CleanupCompletes ==
  \/ audioContext = Null /\ cleanup
  \/ \E c \in pendingCleanup : cleanupResume(c)

\* nothing is running and every handle the loop held is dropped
Released ==
  /\ activeTimers = {}
  /\ ~isAnalyzing
  /\ stream = Null
  /\ audioContext = Null
  /\ analyser = Null
  /\ lastResults = <<>>

\* C2: teardown is idempotent and safe in every state.  With every call run
\* to completion before the next: close() is never called on a context
\* already closed, so no call fails; stopAnalysis leaves no timer and
\* isAnalyzing false, and changes nothing when the loop is not analyzing;
\* a completed cleanup leaves no timer, isAnalyzing false, stream, audio
\* context and analyser null and the history empty, and a cleanup called in
\* that state changes nothing.
C2_Teardown ==
  /\ []((Settled /\ audioContext # Null) => audioContext \in openContexts)
  /\ [][/\ CleanupCompletes => Released'
        /\ stopAnalysis => (~isAnalyzing' /\ activeTimers' = {})
        /\ (~isAnalyzing /\ stopAnalysis) => UNCHANGED vars
        /\ (Released /\ cleanup) => UNCHANGED vars]_vars

\* cleanup has completed on a loop that had been initialised and started
C2_Witness ==
  /\ Released
  /\ Settled
  /\ timersCreated >= 1
  /\ contextsCreated >= 1
  /\ openContexts = {}

\* C3: once cleanup has completed (the loop holds no stream and no audio
\* context, and no call is suspended), every microphone stream acquired has
\* had its tracks stopped and every audio context created has been closed.
C3_AllReleased ==
  (Settled /\ stream = Null /\ audioContext = Null) =>
    (liveStreams = {} /\ openContexts = {})

\* C4: a tick that throws reports to the registered error callback and
\* leaves the loop running: isAnalyzing stays true, the timer stays active
\* and the analyser stays in place, so the next tick runs.
C4_ErrorKeepsLoop ==
  [][tickThrows =>
       /\ isAnalyzing'
       /\ analysisInterval' \in activeTimers'
       /\ analyser' # Null
       /\ onErrorCallback # Null =>
            lastError' = [to |-> onErrorCallback, msg |-> "analysis error"]]_vars

\* a session in which a tick threw and results were emitted
C4_Witness ==
  /\ lastError.msg = "analysis error"
  /\ isAnalyzing
  /\ emitted # <<>>
  /\ activeTimers = {analysisInterval}

\* C5: stopping takes effect at once.  Whenever the loop is not analyzing,
\* no timer is left to fire a tick, no callback is registered, and nothing
\* has been emitted, reported by a tick or stored since the stop.
C5_StopImmediate ==
  ~isAnalyzing =>
    /\ activeTimers = {}
    /\ onResultCallback = Null
    /\ onErrorCallback = Null
    /\ emitted = <<>>
    /\ lastError.msg # "analysis error"
    /\ lastResults = <<>>

\* a session was stopped and the loop is still initialised
C5_Witness ==
  /\ ~isAnalyzing
  /\ timersCreated >= 1
  /\ analyser # Null
  /\ audioContext \in openContexts
  /\ pendingCleanup = {}

\* the states of the lifecycle
Idle == ~isAnalyzing /\ analyser = Null
Initialized == ~isAnalyzing /\ analyser # Null

\* ticking starts only on an initialised loop, with one timer
StartsWhenInitialized ==
  (~isAnalyzing /\ isAnalyzing') =>
    (analyser' # Null /\ activeTimers' = {analysisInterval'})

\* startAnalysis on an Idle loop reports to onError and changes nothing
StartOnIdle ==
  \A h \in Handlers :
    (Idle /\ startAnalysis(h[1], h[2])) =>
      /\ UNCHANGED <<service, browser, async, emitted, classified, warned>>
      /\ lastError' = IF h[2] = Null THEN lastError
                      ELSE [to |-> h[2],
                            msg |-> "Real-time analysis not initialized"]

CleanupToIdle == CleanupCompletes => Idle'

\* C6 as stated: the lifecycle is Idle -> Initialized -> Analyzing -> Idle;
\* startAnalysis starts ticking only from Initialized and on an Idle loop
\* reports to onError and changes nothing; stopAnalysis returns the loop to
\* Idle; cleanup forces Idle.
C6_StopReturnsToIdle ==
  [][/\ StartsWhenInitialized
     /\ StartOnIdle
     /\ (isAnalyzing /\ stopAnalysis) => Idle'
     /\ CleanupToIdle]_vars

\* C6 as amended: stopAnalysis returns the loop to Initialized, the analyser
\* kept as it was; only cleanup returns it to Idle.
C6_Lifecycle ==
  [][/\ StartsWhenInitialized
     /\ StartOnIdle
     /\ (isAnalyzing /\ stopAnalysis) => (Initialized' /\ analyser' = analyser)
     /\ CleanupToIdle]_vars

\* a second session was started on the first initialisation
C6_Witness ==
  /\ isAnalyzing
  /\ timersCreated = 2
  /\ streamsAcquired = 1

\* C7: ticks do not overlap.  The one registered timer is the only source
\* of ticks, every tick has classified, smoothed, stored and emitted its
\* result before the next begins, and so the result the next smoothing step
\* reads, the last of the history, is the one the preceding tick emitted.
C7_TicksSequential ==
  /\ isAnalyzing => activeTimers = {analysisInterval}
  /\ Len(emitted) = Len(classified)
  /\ (isAnalyzing /\ emitted # <<>>) =>
       /\ lastResults # <<>>
       /\ lastResults[Len(lastResults)] = emitted[Len(emitted)]

\* a tick was smoothed against the tick before it
C7_Witness ==
  /\ isAnalyzing
  /\ Len(emitted) >= 2
  /\ emitted[2].volume # classified[2].volume
  /\ emitted[2].volume # emitted[1].volume

\* C8: the verdicts are never smoothed: the isSlurred and isSpeaking of
\* every emitted result are those of that tick's raw classification.
C8_VerdictsRaw ==
  \A i \in 1..Len(emitted) :
    /\ i <= Len(classified)
    /\ emitted[i].isSlurred = classified[i].isSlurred
    /\ emitted[i].isSpeaking = classified[i].isSpeaking

\* raw verdicts false, true, false were emitted as such while the
\* continuous fields, with smoothingFactor 1, stayed at the first values
C8_Witness ==
  /\ config.smoothingFactor = 10
  /\ Len(emitted) = 3
  /\ ~classified[1].isSlurred /\ classified[2].isSlurred
  /\ ~classified[3].isSlurred
  /\ ~emitted[1].isSlurred /\ emitted[2].isSlurred /\ ~emitted[3].isSlurred
  /\ emitted[3].volume = emitted[1].volume

ContinuousFields == {"confidence", "volume", "pitch", "clarity"}

\* C9: the first result of a session is its raw classification; in every
\* later one each continuous field is
\* previous * smoothingFactor + current * (1 - smoothingFactor), evaluated
\* as the JavaScript expression, with previous the field of the result
\* emitted just before and current that of this tick's raw classification.
C9_Smoothing ==
  \A i \in 1..Len(emitted) :
    IF i = 1 THEN emitted[1] = classified[1]
    ELSE \A f \in ContinuousFields :
           LET smoothingFactor == Tenths[config.smoothingFactor]
               oneMinusSmoothingFactor == OneMinus[config.smoothingFactor]
           IN emitted[i][f]
                = DAdd(DMul(emitted[i - 1][f], smoothingFactor),
                       DMul(classified[i][f], oneMinusSmoothingFactor))

\* in a second session a result was blended with the one before it
C9_Witness ==
  /\ timersCreated = 2
  /\ config.smoothingFactor = 7
  /\ Len(emitted) >= 2
  /\ emitted[2].confidence # classified[2].confidence
  /\ emitted[2].confidence # emitted[1].confidence

\* the last n elements of a sequence
LastN(seq, n) == SubSeq(seq, Len(seq) - n + 1, Len(seq))

\* C10: the history never holds more than 10 results; while the loop is
\* analyzing it is the last min(n, 10) of the n results emitted in the
\* session, in order; it is empty whenever the loop is not analyzing.
C10_History ==
  /\ Len(lastResults) <= 10
  /\ isAnalyzing =>
       lastResults = LastN(emitted, Min(Len(emitted), 10))
  /\ ~isAnalyzing => lastResults = <<>>

\* the eleventh result evicted the first, which differed from the second
C10_Witness ==
  /\ Len(emitted) = 11
  /\ Len(lastResults) = 10
  /\ emitted[1] # emitted[2]
  /\ lastResults[1] = emitted[2]

\* the raw results of the session so far are all the same
ConstantInput == \A i \in 1..Len(classified) : classified[i] = classified[1]

\* C11: under a constant input stream the emitted confidence, volume, pitch
\* and clarity are, after a few ticks (five here) and on every later tick,
\* equal to the constant raw values.
C11_ConstantStream ==
  ConstantInput =>
    \A i \in 6..Len(emitted) :
      \A f \in ContinuousFields : emitted[i][f] = classified[1][f]

LocalReturned == riskCall.state = "resolved" /\ riskCall.path = "local"

\* C13: for all BEFAST answers, optional face analysis and optional speech
\* analysis, the local calculation returns min(100, 20 x number of true
\* answers + (30 if asymmetry > 30, else 15 if asymmetry > 15) + (25 if
\* isSlurred) + (10 if speech confidence < 0.7)); all answers false and no
\* analyses give score 0, level LOW and no factors.
C13_LocalScore ==
  LocalReturned =>
    LET data == riskCall.data[1]
        returned == riskCall.value[1]
        positive == Cardinality({q \in Questions :
                                   data.befastAnswers[q] = "true"})
        face == IF data.faceAnalysis = None THEN 0
                ELSE IF data.faceAnalysis[1].asymmetry > 300 THEN 30
                ELSE IF data.faceAnalysis[1].asymmetry > 150 THEN 15 ELSE 0
        slurred == IF data.speechAnalysis # None
                      /\ data.speechAnalysis[1].isSlurred THEN 25 ELSE 0
        unsure == IF data.speechAnalysis # None
                     /\ data.speechAnalysis[1].confidence < 70 THEN 10 ELSE 0
        total == 20 * positive + face + slurred + unsure
    IN /\ returned.score = Number(IF total > 100 THEN 100 ELSE total)
       /\ ( /\ \A q \in Questions : data.befastAnswers[q] = "false"
            /\ data.faceAnalysis = None
            /\ data.speechAnalysis = None )
          => /\ returned.score = Number(0)
             /\ returned.level = "LOW"
             /\ returned.factors = <<>>

\* a local result for two positive answers, high asymmetry and clear speech
\* of low confidence
C13_Witness ==
  /\ LocalReturned
  /\ Cardinality({q \in Questions :
                    riskCall.data[1].befastAnswers[q] = "true"}) = 2
  /\ riskCall.data[1].faceAnalysis = Some([asymmetry |-> 301])
  /\ riskCall.data[1].speechAnalysis
       = Some([isSlurred |-> FALSE, confidence |-> 69])
  /\ riskCall.value[1].score = Number(80)

\* the unclamped total of the local calculation
RawTotal(data) ==
  BefastPart(data).score + FacePart(data).score + SpeechPart(data).score

\* C14: every RiskScore the advisor returns, from the local calculation or
\* from the remote reply, has a score between 0 and 100, and an input whose
\* raw total exceeds 100 gets score exactly 100 and level HIGH.
C14_ScoreRange ==
  riskCall.state = "resolved" =>
    LET returned == riskCall.value[1]
    IN /\ ~returned.score.nan
       /\ returned.score.n >= 0
       /\ returned.score.n <= 100
       /\ (riskCall.path = "local" /\ RawTotal(riskCall.data[1]) > 100)
            => returned.score = Number(100) /\ returned.level = "HIGH"

\* C15: the level of a local RiskScore agrees with its returned score: HIGH
\* exactly when score >= 70, MEDIUM exactly when 40 <= score < 70, LOW
\* otherwise.
C15_LevelOfScore ==
  LocalReturned =>
    LET returned == riskCall.value[1]
    IN /\ returned.level = "HIGH" <=> returned.score.n >= 70
       /\ returned.level = "MEDIUM"
            <=> (returned.score.n >= 40 /\ returned.score.n < 70)
       /\ returned.level = "LOW" <=> returned.score.n < 40

\* a local result exactly at the MEDIUM threshold
C15_Witness ==
  /\ LocalReturned
  /\ riskCall.value[1].score = Number(40)
  /\ riskCall.value[1].level = "MEDIUM"

\* the input with one more answer true
WithTrue(data, q) == [data EXCEPT !.befastAnswers[q] = "true"]

\* C16: changing one BEFAST answer from false or unset to true, all else
\* fixed, never decreases the score of the local calculation.
C16_Monotone ==
  LocalReturned =>
    \A q \in Questions :
      riskCall.data[1].befastAnswers[q] # "true" =>
        calculateLocally(WithTrue(riskCall.data[1], q)).score.n
          >= riskCall.value[1].score.n

\* a local result of 80 for an input with an answer still false and one
\* unset, where one more positive answer gives 100
C16_Witness ==
  /\ LocalReturned
  /\ riskCall.value[1].score = Number(80)
  /\ \E q, u \in Questions :
       /\ riskCall.data[1].befastAnswers[q] = "false"
       /\ riskCall.data[1].befastAnswers[u] = "null"
       /\ calculateLocally(WithTrue(riskCall.data[1], q)).score = Number(100)

\* C17: analyzeRisk never rejects; without an API key, or when the remote
\* call fails, answers with a non-OK status, carries no content or carries
\* content that cannot be parsed, it returns exactly the local calculation
\* of the same input.
C17_FallsBackLocally ==
  (riskCall.op = "analyzeRisk" /\ riskCall.state # "pending") =>
    /\ riskCall.state = "resolved"
    /\ (~apiKey \/ riskCall.reply \in RemoteFailures)
         => riskCall.value = Some(calculateLocally(riskCall.data[1]))

\* analyzeRisk has returned after the remote API answered with a non-OK
\* status
C17_Witness ==
  /\ apiKey
  /\ riskCall.op = "analyzeRisk"
  /\ riskCall.state = "resolved"
  /\ riskCall.reply = "status not ok"
  /\ riskCall.value[1].score = Number(55)

\* the step in which a handler of the analysis page stores the risk score
\* and ends
HandlerFinishes ==
  pageTask.pc = "calculateFinalRiskScore" /\ pageTask'.pc = "idle"

\* C18: whenever the analysis page finishes handling a face capture or a
\* speech recording, the risk score in the store equals the local
\* calculation applied to the BEFAST answers, face analysis and speech
\* analysis that are in the store at that moment.
C18_ScoreOfCurrentInputs ==
  [][HandlerFinishes =>
       aiRiskScore' = Some(calculateLocally(
                              [befastAnswers |-> befastAnswers',
                               faceAnalysis |-> faceAnalysis',
                               speechAnalysis |-> speechAnalysis']))]_vars

\* C19: setAIRiskScore puts the application in emergency mode
\* (isEmergencyMode true, currentScreen 'time') exactly when the stored score
\* is greater than 70 and otherwise leaves isEmergencyMode and currentScreen
\* unchanged; the local risk calculation changes no store state.
C19_EmergencyAbove70 ==
  [][/\ HandlerFinishes =>
          /\ aiRiskScore' = riskCall.value
          /\ IF aiRiskScore'[1].score.n > 70
               THEN isEmergencyMode' /\ currentScreen' = "time"
               ELSE UNCHANGED <<isEmergencyMode, currentScreen>>
     /\ (riskCall.state = "pending" /\ riskCall'.path = "local")
          => UNCHANGED store]_vars

\* a score of 70 was stored without an emergency, by a handler that ran
\* after an earlier one
C19_Witness ==
  /\ pageTask.pc = "idle"
  /\ handled = 2
  /\ aiRiskScore # None
  /\ aiRiskScore[1].score = Number(70)
  /\ ~isEmergencyMode
  /\ currentScreen = "befast"

\* C20: speechAnalysisService.analyzeSpeech always resolves with a result
\* and never rejects; a failure to decode the recording, or an exception
\* during feature extraction or classification, is replaced by a result of
\* the simulation.
C20_SpeechAlwaysResolves ==
  /\ speechCall.state \in {"none", "pending", "resolved"}
  /\ speechCall.state = "resolved" =>
       /\ speechCall.value # None
       /\ speechCall.failure \in SpeechFailures =>
            /\ speechCall.source = "simulation"
            /\ speechCall.value[1] \in SimulatedSpeech

\* analyzeSpeech resolved with a simulated result after decodeAudioData
\* rejected
C20_Witness ==
  /\ speechCall.state = "resolved"
  /\ speechCall.failure = "decodeAudioData rejects"
  /\ speechCall.source = "simulation"
  /\ speechAnalysis = speechCall.value

\* the transcription of a result is one of the phrases the code holds,
\* picked with Math.random: the offline analysis and both simulations
Canned(source) == source \in {"offline", "simulation"}

\* C21: with a Hugging Face API key configured, analyzeSpeech takes the
\* transcription from the speech-recognition backend; a canned, randomly
\* chosen transcription is returned only when no key is configured (or
\* the backend itself fails).
C21_KeyGivesRealTranscription ==
  speechCall.state = "resolved" =>
    /\ speechCall.hf = "transcribes" => speechCall.source = "huggingface"
    /\ Canned(speechCall.source) => speechCall.hf \in {"no key", "fails"}

\* C22: the confidence of the single-shot classifier lies within
\* [0.3, 0.95]: it is 0.5 when no bonus applies and 0.95 when all of them do.
C22_ConfidenceRange ==
  evaluated.op = "analyzeSpeechPatterns" =>
    LET f == evaluated.input[1]
        confidence == evaluated.output[1].confidence
    IN /\ ~DLess(confidence, Tenths[3])
       /\ ~DLess(Hundredths[95], confidence)
       /\ (~Gt(f.rms, 50) /\ ~Gt(f.duration, 50) /\ ~Gt(f.pitch, 80)
           /\ ~Gt(f.spectralCentroid, 800) /\ ~Gt(f.zeroCrossingRate, 10))
            => confidence = Tenths[5]
       /\ (Gt(f.rms, 200) /\ Gt(f.duration, 200)
           /\ f.spectralCentroid = Number(801)
           /\ f.zeroCrossingRate = Number(11) /\ f.pitch = Number(81))
            => confidence = Hundredths[95]

\* every bonus applies, and the sum 1.45 is capped
C22_Witness ==
  /\ evaluated.op = "analyzeSpeechPatterns"
  /\ evaluated.input[1] =
       [rms |-> Number(201), duration |-> Number(201),
        spectralCentroid |-> Number(801), zeroCrossingRate |-> Number(11),
        pitch |-> Number(81)]
  /\ evaluated.output[1].confidence = Hundredths[95]

\* C23: the single-shot classifier sets isSlurred exactly when at least one
\* rule is violated: rms < 0.03, zero-crossing rate > 0.12, spectral
\* centroid < 300 or > 5000, duration < 0.3 or > 15, pitch < 50 or > 600;
\* the confidence plays no part.
C23_RuleBasedVerdict ==
  evaluated.op = "analyzeSpeechPatterns" =>
    LET f == evaluated.input[1]
    IN evaluated.output[1].isSlurred <=>
         \/ Lt(f.rms, 30)
         \/ Gt(f.zeroCrossingRate, 120)
         \/ Lt(f.spectralCentroid, 300) \/ Gt(f.spectralCentroid, 5000)
         \/ Lt(f.duration, 30) \/ Gt(f.duration, 1500)
         \/ Lt(f.pitch, 50) \/ Gt(f.pitch, 600)

\* no rule is violated and no bonus applies: normal at confidence 0.5
C23_Witness ==
  /\ evaluated.op = "analyzeSpeechPatterns"
  /\ evaluated.input[1] =
       [rms |-> Number(30), duration |-> Number(30),
        spectralCentroid |-> Number(300), zeroCrossingRate |-> Number(120),
        pitch |-> Number(50)]
  /\ ~evaluated.output[1].isSlurred
  /\ evaluated.output[1].confidence = Tenths[5]

Silent(samples) == \A i \in 1..Len(samples) : samples[i] = 0

\* C24: from a recording that is empty or silent throughout, the extraction
\* returns rms 0, pitch 0 and spectral centroid 0, no division by zero
\* reaching a feature, and the classifier marks the empty recording abnormal
\* with the reason 'too short'.
C24_SilentRecording ==
  (evaluated.op = "extractAudioFeatures" /\ Silent(evaluated.input[1])) =>
    /\ evaluated.output[1].features.rms = Number(0)
    /\ evaluated.output[1].features.pitch = Number(0)
    /\ evaluated.output[1].features.spectralCentroid = Number(0)
    /\ evaluated.input[1] = <<>> =>
         /\ evaluated.output[1].analysis.isSlurred
         /\ "too short" \in evaluated.output[1].analysis.reasons

\* x + y is 1, with no rounding
SumsToOne(x, y) ==
  LET e == Min(x.e, y.e)
  IN BAdd(BShl(x.m, x.e - e), BShl(y.m, y.e - e)) = BShl(<<1>>, -e)

\* x and y differ by no more than a thousandth
Close(x, y) ==
  /\ ~DLess(DAdd(y, Thousandths[1]), x)
  /\ ~DLess(DAdd(x, Thousandths[1]), y)

Abs(n) == IF n < 0 THEN -n ELSE n

\* C25: calculateFacialAsymmetry returns min(100, 0.4 * eye + 0.4 * mouth
\* + 0.2 * face) percent, each term the distance of a landmark from its
\* mirror image; the result lies within [0, 100] and is 0 when the face is
\* perfectly mirror-symmetric.
C25_Asymmetry ==
  evaluated.op = "calculateFacialAsymmetry" =>
    LET l == evaluated.input[1]
        x == [k \in DOMAIN l |-> Twentieths[l[k]]]
        asymmetry == evaluated.output[1]
        \* twice the percentage, in exact arithmetic
        twice == 4 * Abs(l.leftEye + l.rightEye - 20)
                 + 4 * Abs(l.leftMouth + l.rightMouth - 20)
                 + Abs(l.noseTip + l.chin - 20)
    IN /\ ~DLess(DInt(100), asymmetry)
       /\ Close(DMul(asymmetry, DInt(2)), DInt(Min(200, twice)))
       /\ (SumsToOne(x.leftEye, x.rightEye)
           /\ SumsToOne(x.leftMouth, x.rightMouth)
           /\ l.noseTip = 10 /\ l.chin = 10)
            => asymmetry = Zero

\* eyes at 1/4 and 3/4, mouth corners at the edges, nose and chin centred
C25_Witness ==
  /\ evaluated.op = "calculateFacialAsymmetry"
  /\ evaluated.input[1] =
       [leftEye |-> 5, rightEye |-> 15, leftMouth |-> 0, rightMouth |-> 20,
        noseTip |-> 10, chin |-> 10]
  /\ evaluated.output[1] = Zero

\* C26: a tick whose volume is not above the sensitivity threshold is
\* classified with confidence 0.1, isSlurred false and the label
\* 'No speech detected', whatever its pitch, spectral centroid,
\* zero-crossing rate and clarity.
C26_SilentTick ==
  (evaluated.op = "analyzeRealTimeSpeech"
   /\ ~(evaluated.input[1].volume > DefaultConfig.sensitivity)) =>
    /\ ~evaluated.input[1].isSpeaking
    /\ evaluated.output[1].confidence = Tenths[1]
    /\ ~evaluated.output[1].isSlurred
    /\ evaluated.output[1].transcription = "No speech detected"

\* a tick exactly at the threshold, with a volume, pitch, spectral centroid,
\* zero-crossing rate and clarity that would each be a violation in speech
C26_Witness ==
  /\ evaluated.op = "analyzeRealTimeSpeech"
  /\ evaluated.input[1].volume = DefaultConfig.sensitivity
  /\ evaluated.input[1].pitch = 601
  /\ evaluated.input[1].spectralCentroid = 301
  /\ evaluated.input[1].zeroCrossingRate = 151
  /\ evaluated.input[1].clarity = 199
  /\ evaluated.output[1].transcription = "No speech detected"

\* C28: a cleanup suspended at `await this.audioContext.close()` does not
\* disturb a session begun in the meantime: in every reachable state a loop
\* that is analyzing has its analyser, so that its ticks go on emitting.
C28_AnalyzingHasAnalyser == isAnalyzing => analyser # Null

\* C27: the live risk score the assessment page shows as score/100 lies
\* within [0, 100] in every state the page can be brought into.
C27_LiveScoreRange ==
  MainShown =>
    calculateScore(befastAnswers, testPage.analysisResults).score \in 0..100

\* C29: while the assessment page is displayed at most one volume timer
\* exists, and none unless the page's real-time analysis is running.
C29_VolumeTimer ==
  Displayed =>
    /\ Cardinality(testPage.volumeTimers) <= 1
    /\ ~testPage.isRealTimeAnalyzing => testPage.volumeTimers = {}

\* C30: whenever the real-time view is not shown and no call of the loop is
\* suspended, the loop is not analyzing and no microphone stream is open.
C30_HiddenViewIsQuiet ==
  (MainShown /\ Settled) => (~isAnalyzing /\ liveStreams = {})
====
